---- MODULE Spec2Model ----
(***************************************************************************)
(* Cursor move operations of the editor controller                        *)
(* (src/vs/editor/common/controller/cursorMoveOperations.ts).              *)
(*                                                                         *)
(* The text buffer is a sequence of lines; a line is a sequence of UTF-16  *)
(* code units, of which only the kind matters to the move operations:      *)
(*   "a" an ordinary character, "s" a space, "t" a tab,                    *)
(*   "H" a high surrogate, "L" a low surrogate.                            *)
(* A cursor is a SingleCursorState: the anchor (selectionStart, always a   *)
(* zero-width range for the states these operations produce), the floating *)
(* end (position), the leftover visible columns of both, and isEnd.        *)
(***************************************************************************)
EXTENDS Integers, Sequences, FiniteSets, TLC

VARIABLES lines, tabSize, cursor, op, queried

vars == <<lines, tabSize, cursor, op, queried>>

(* ------------------------------ bounds --------------------------------- *)

\* largest noOfColumns / linesCount a command is issued with
MaxCount == 2

\* largest configured tab size
MaxTabSize == 2

\* largest magnitude of a leftover the exploration follows
MaxLeftover == 3

(* ------------------------------ buffers -------------------------------- *)

LineEmpty == << >>
LineA == <<"a">>
LineAAA == <<"a", "a", "a">>
LineTabA == <<"t", "a">>
LinePair == <<"a", "H", "L">>
LineIndent == <<"s", "s", "a">>
LineBlank == <<"s">>

\* the buffer snapshots the operations are exercised on
Buffers ==
    { <<LineEmpty>>,
      <<LineA, LineAAA, LineEmpty>>,
      <<LineTabA, LineEmpty, LinePair>>,
      <<LineIndent, LineBlank>> }

(* --------------------------- the buffer view --------------------------- *)

getLineCount == Len(lines)

getLineContent(lineNumber) == lines[lineNumber]

getLineMinColumn(lineNumber) == 1

getLineMaxColumn(lineNumber) == Len(lines[lineNumber]) + 1

RECURSIVE firstNonWhitespaceFrom(_, _)
firstNonWhitespaceFrom(lineContent, i) ==
    IF i > Len(lineContent) THEN 0
    ELSE IF lineContent[i] \notin {"s", "t"} THEN i
    ELSE firstNonWhitespaceFrom(lineContent, i + 1)

\* 0 stands for "none": the line is empty or all whitespace
getLineFirstNonWhitespaceColumn(lineNumber) ==
    firstNonWhitespaceFrom(lines[lineNumber], 1)

(* ----------------------- strings: character lengths -------------------- *)

\* length in code units of the character that ends at 0-based offset
prevCharLength(str, offset) ==
    IF offset >= 2 /\ offset <= Len(str) /\ str[offset] = "L" /\ str[offset - 1] = "H"
    THEN 2 ELSE 1

\* length in code units of the character that starts at 0-based offset
nextCharLength(str, offset) ==
    IF offset + 2 <= Len(str) /\ str[offset + 1] = "H" /\ str[offset + 2] = "L"
    THEN 2 ELSE 1

(* ------------------------- coordinate translator ----------------------- *)

RECURSIVE visibleWalk(_, _, _)
visibleWalk(lineContent, endOffset, tabSz) ==
    IF endOffset <= 0 THEN 0
    ELSE LET before == visibleWalk(lineContent, endOffset - 1, tabSz)
         IN  IF lineContent[endOffset] = "t"
             THEN before + (tabSz - (before % tabSz))
             ELSE before + 1

visibleColumnFromColumn(lineContent, column, tabSz) ==
    LET endOffset == IF Len(lineContent) > column - 1 THEN column - 1 ELSE Len(lineContent)
    IN  visibleWalk(lineContent, endOffset, tabSz)

RECURSIVE columnWalk(_, _, _, _, _)
columnWalk(lineContent, visibleColumn, tabSz, i, beforeVisibleColumn) ==
    IF i > Len(lineContent) THEN Len(lineContent) + 1
    ELSE LET afterVisibleColumn ==
                 IF lineContent[i] = "t"
                 THEN beforeVisibleColumn + (tabSz - (beforeVisibleColumn % tabSz))
                 ELSE beforeVisibleColumn + 1
         IN  IF afterVisibleColumn >= visibleColumn
             THEN (IF afterVisibleColumn = visibleColumn THEN i + 1 ELSE i)
             ELSE columnWalk(lineContent, visibleColumn, tabSz, i + 1, afterVisibleColumn)

columnFromVisibleColumn(lineContent, visibleColumn, tabSz) ==
    IF visibleColumn <= 0 THEN 1
    ELSE columnWalk(lineContent, visibleColumn, tabSz, 1, 0)

columnFromVisibleColumn2(lineNumber, visibleColumn) ==
    LET result == columnFromVisibleColumn(getLineContent(lineNumber), visibleColumn, tabSize)
        minColumn == getLineMinColumn(lineNumber)
        maxColumn == getLineMaxColumn(lineNumber)
    IN  IF result < minColumn THEN minColumn
        ELSE IF result > maxColumn THEN maxColumn
        ELSE result

(* ------------------------------ values --------------------------------- *)

Position(lineNumber, column) == [lineNumber |-> lineNumber, column |-> column]

CursorPosition(lineNumber, column, leftoverVisibleColumns) ==
    [lineNumber |-> lineNumber, column |-> column,
     leftoverVisibleColumns |-> leftoverVisibleColumns]

SingleCursorState(selectionStart, selectionStartLeftoverVisibleColumns, position, leftoverVisibleColumns, isEnd) ==
    [selectionStart |-> selectionStart,
     selectionStartLeftoverVisibleColumns |-> selectionStartLeftoverVisibleColumns,
     position |-> position,
     leftoverVisibleColumns |-> leftoverVisibleColumns,
     isEnd |-> isEnd]

isBeforeOrEqual(a, b) ==
    \/ a.lineNumber < b.lineNumber
    \/ a.lineNumber = b.lineNumber /\ a.column <= b.column

\* the selection of a cursor: the anchor and the floating end, and their
\* normalisation into start <= end
selection(c) ==
    LET first == IF isBeforeOrEqual(c.selectionStart, c.position)
                 THEN c.selectionStart ELSE c.position
        last  == IF isBeforeOrEqual(c.selectionStart, c.position)
                 THEN c.position ELSE c.selectionStart
    IN  [startLineNumber |-> first.lineNumber, startColumn |-> first.column,
         endLineNumber |-> last.lineNumber, endColumn |-> last.column,
         selectionStartLineNumber |-> c.selectionStart.lineNumber,
         selectionStartColumn |-> c.selectionStart.column,
         positionLineNumber |-> c.position.lineNumber,
         positionColumn |-> c.position.column]

hasSelection(c) == c.selectionStart # c.position

move(c, inSelectionMode, lineNumber, column, leftoverVisibleColumns, isEnd) ==
    IF inSelectionMode
    THEN SingleCursorState(c.selectionStart, c.selectionStartLeftoverVisibleColumns,
                           Position(lineNumber, column), leftoverVisibleColumns, isEnd)
    ELSE SingleCursorState(Position(lineNumber, column), leftoverVisibleColumns,
                           Position(lineNumber, column), leftoverVisibleColumns, isEnd)

(* -------------------------- horizontal movement ------------------------ *)

\* leftPosition wrapping to the start of the previous line instead of its end
leftPosition_wrapsToLineStart(lineNumber, column) ==
    IF column > getLineMinColumn(lineNumber)
    THEN Position(lineNumber,
                  column - prevCharLength(getLineContent(lineNumber), column - 1))
    ELSE IF lineNumber > 1
    THEN Position(lineNumber - 1, getLineMinColumn(lineNumber - 1))
    ELSE Position(lineNumber, column)

\* leftPosition stepping one code unit whatever the character before the column
leftPosition_oneCodeUnit(lineNumber, column) ==
    IF column > getLineMinColumn(lineNumber)
    THEN Position(lineNumber, column - 1)
    ELSE IF lineNumber > 1
    THEN Position(lineNumber - 1, getLineMaxColumn(lineNumber - 1))
    ELSE Position(lineNumber, column)

leftPosition(lineNumber, column) ==
    IF column > getLineMinColumn(lineNumber)
    THEN Position(lineNumber,
                  column - prevCharLength(getLineContent(lineNumber), column - 1))
    ELSE IF lineNumber > 1
    THEN Position(lineNumber - 1, getLineMaxColumn(lineNumber - 1))
    ELSE Position(lineNumber, column)

left(lineNumber, column) ==
    LET pos == leftPosition(lineNumber, column)
    IN  CursorPosition(pos.lineNumber, pos.column, 0)

\* moveLeft without the branch that leaves a selection: it always steps from
\* the floating end
moveLeft_stepsFromFloatingEnd(c, inSelectionMode, noOfColumns) ==
    LET r == left(c.position.lineNumber, c.position.column - (noOfColumns - 1))
    IN  move(c, inSelectionMode, r.lineNumber, r.column, 0, FALSE)

moveLeft(c, inSelectionMode, noOfColumns) ==
    IF hasSelection(c) /\ ~inSelectionMode
    THEN move(c, inSelectionMode, selection(c).startLineNumber,
              selection(c).startColumn, 0, FALSE)
    ELSE LET r == left(c.position.lineNumber, c.position.column - (noOfColumns - 1))
         IN  move(c, inSelectionMode, r.lineNumber, r.column, 0, FALSE)

\* rightPosition never leaving the line
rightPosition_staysOnLine(lineNumber, column) ==
    IF column < getLineMaxColumn(lineNumber)
    THEN Position(lineNumber,
                  column + nextCharLength(getLineContent(lineNumber), column - 1))
    ELSE Position(lineNumber, column)

\* rightPosition stepping one code unit whatever the character at the column
rightPosition_oneCodeUnit(lineNumber, column) ==
    IF column < getLineMaxColumn(lineNumber)
    THEN Position(lineNumber, column + 1)
    ELSE IF lineNumber < getLineCount
    THEN Position(lineNumber + 1, getLineMinColumn(lineNumber + 1))
    ELSE Position(lineNumber, column)

rightPosition(lineNumber, column) ==
    IF column < getLineMaxColumn(lineNumber)
    THEN Position(lineNumber,
                  column + nextCharLength(getLineContent(lineNumber), column - 1))
    ELSE IF lineNumber < getLineCount
    THEN Position(lineNumber + 1, getLineMinColumn(lineNumber + 1))
    ELSE Position(lineNumber, column)

right(lineNumber, column) ==
    LET pos == rightPosition(lineNumber, column)
    IN  CursorPosition(pos.lineNumber, pos.column, 0)

moveRight(c, inSelectionMode, noOfColumns) ==
    IF hasSelection(c) /\ ~inSelectionMode
    THEN move(c, inSelectionMode, selection(c).endLineNumber,
              selection(c).endColumn, 0, FALSE)
    ELSE LET r == right(c.position.lineNumber, c.position.column + (noOfColumns - 1))
         IN  move(c, inSelectionMode, r.lineNumber, r.column, 0, FALSE)

(* --------------------------- vertical movement ------------------------- *)

Min(a, b) == IF a < b THEN a ELSE b

\* down never returning a negative leftover
down_leftoverNeverNegative(lineNumber, column, leftoverVisibleColumns, count, allowMoveOnLastLine) ==
    LET currentVisibleColumn ==
            visibleColumnFromColumn(getLineContent(lineNumber), column, tabSize)
            + leftoverVisibleColumns
        lineCount == getLineCount
        newLine == IF lineNumber + count > lineCount THEN lineCount ELSE lineNumber + count
        newColumn ==
            IF lineNumber + count > lineCount
            THEN (IF allowMoveOnLastLine
                  THEN getLineMaxColumn(newLine)
                  ELSE Min(getLineMaxColumn(newLine), column))
            ELSE columnFromVisibleColumn2(newLine, currentVisibleColumn)
        newLeftover ==
            currentVisibleColumn
            - visibleColumnFromColumn(getLineContent(newLine), newColumn, tabSize)
    IN  CursorPosition(newLine, newColumn, IF newLeftover < 0 THEN 0 ELSE newLeftover)

\* down keeping the column when clamped, whatever allowMoveOnLastLine says
down_keepsColumnWhenClamped(lineNumber, column, leftoverVisibleColumns, count, allowMoveOnLastLine) ==
    LET currentVisibleColumn ==
            visibleColumnFromColumn(getLineContent(lineNumber), column, tabSize)
            + leftoverVisibleColumns
        lineCount == getLineCount
        newLine == IF lineNumber + count > lineCount THEN lineCount ELSE lineNumber + count
        newColumn ==
            IF lineNumber + count > lineCount
            THEN Min(getLineMaxColumn(newLine), column)
            ELSE columnFromVisibleColumn2(newLine, currentVisibleColumn)
    IN  CursorPosition(newLine, newColumn,
            currentVisibleColumn
            - visibleColumnFromColumn(getLineContent(newLine), newColumn, tabSize))

\* down aiming at the visible column of the current column, the leftover dropped
down_dropsLeftover(lineNumber, column, leftoverVisibleColumns, count, allowMoveOnLastLine) ==
    LET currentVisibleColumn ==
            visibleColumnFromColumn(getLineContent(lineNumber), column, tabSize)
        lineCount == getLineCount
        newLine == IF lineNumber + count > lineCount THEN lineCount ELSE lineNumber + count
        newColumn ==
            IF lineNumber + count > lineCount
            THEN (IF allowMoveOnLastLine
                  THEN getLineMaxColumn(newLine)
                  ELSE Min(getLineMaxColumn(newLine), column))
            ELSE columnFromVisibleColumn2(newLine, currentVisibleColumn)
    IN  CursorPosition(newLine, newColumn,
            currentVisibleColumn
            - visibleColumnFromColumn(getLineContent(newLine), newColumn, tabSize))

down(lineNumber, column, leftoverVisibleColumns, count, allowMoveOnLastLine) ==
    LET currentVisibleColumn ==
            visibleColumnFromColumn(getLineContent(lineNumber), column, tabSize)
            + leftoverVisibleColumns
        lineCount == getLineCount
        newLine == IF lineNumber + count > lineCount THEN lineCount ELSE lineNumber + count
        newColumn ==
            IF lineNumber + count > lineCount
            THEN (IF allowMoveOnLastLine
                  THEN getLineMaxColumn(newLine)
                  ELSE Min(getLineMaxColumn(newLine), column))
            ELSE columnFromVisibleColumn2(newLine, currentVisibleColumn)
    IN  CursorPosition(newLine, newColumn,
            currentVisibleColumn
            - visibleColumnFromColumn(getLineContent(newLine), newColumn, tabSize))

\* the line the vertical step of moveDown starts from
moveDownLine(c, inSelectionMode) ==
    IF hasSelection(c) /\ ~inSelectionMode
    THEN selection(c).endLineNumber ELSE c.position.lineNumber

\* moveDown always stepping from the floating end, selection or not
moveDown_stepsFromFloatingEnd(c, inSelectionMode, linesCount) ==
    LET lineNumber == c.position.lineNumber
        column == IF c.isEnd THEN getLineMaxColumn(lineNumber + 1) ELSE c.position.column
        r == down(lineNumber, column, c.leftoverVisibleColumns, linesCount, TRUE)
    IN  move(c, inSelectionMode, r.lineNumber, IF c.isEnd THEN column ELSE r.column,
             r.leftoverVisibleColumns, c.isEnd)

moveDown(c, inSelectionMode, linesCount) ==
    LET lineNumber == moveDownLine(c, inSelectionMode)
        column0 == IF hasSelection(c) /\ ~inSelectionMode
                   THEN selection(c).endColumn ELSE c.position.column
        column == IF c.isEnd THEN getLineMaxColumn(lineNumber + 1) ELSE column0
        r == down(lineNumber, column, c.leftoverVisibleColumns, linesCount, TRUE)
    IN  move(c, inSelectionMode, r.lineNumber, IF c.isEnd THEN column ELSE r.column,
             r.leftoverVisibleColumns, c.isEnd)

\* translateDown stepping both endpoints with the floating end's leftover
translateDown_sharesLeftover(c) ==
    LET sel == selection(c)
        selectionStart == down(sel.selectionStartLineNumber, sel.selectionStartColumn,
                               c.leftoverVisibleColumns, 1, FALSE)
        position == down(sel.positionLineNumber, sel.positionColumn,
                         c.leftoverVisibleColumns, 1, FALSE)
    IN  SingleCursorState(
            Position(selectionStart.lineNumber, selectionStart.column),
            selectionStart.leftoverVisibleColumns,
            Position(position.lineNumber, position.column),
            position.leftoverVisibleColumns,
            FALSE)

translateDown(c) ==
    LET sel == selection(c)
        selectionStart == down(sel.selectionStartLineNumber, sel.selectionStartColumn,
                               c.selectionStartLeftoverVisibleColumns, 1, FALSE)
        position == down(sel.positionLineNumber, sel.positionColumn,
                         c.leftoverVisibleColumns, 1, FALSE)
    IN  SingleCursorState(
            Position(selectionStart.lineNumber, selectionStart.column),
            selectionStart.leftoverVisibleColumns,
            Position(position.lineNumber, position.column),
            position.leftoverVisibleColumns,
            FALSE)

\* up snapping to the max column of line 1 when clamped, as down does on the
\* last line
up_snapsToMaxColumn(lineNumber, column, leftoverVisibleColumns, count, allowMoveOnFirstLine) ==
    LET currentVisibleColumn ==
            visibleColumnFromColumn(getLineContent(lineNumber), column, tabSize)
            + leftoverVisibleColumns
        newLine == IF lineNumber - count < 1 THEN 1 ELSE lineNumber - count
        newColumn ==
            IF lineNumber - count < 1
            THEN (IF allowMoveOnFirstLine
                  THEN getLineMaxColumn(newLine)
                  ELSE Min(getLineMaxColumn(newLine), column))
            ELSE columnFromVisibleColumn2(newLine, currentVisibleColumn)
    IN  CursorPosition(newLine, newColumn,
            currentVisibleColumn
            - visibleColumnFromColumn(getLineContent(newLine), newColumn, tabSize))

up(lineNumber, column, leftoverVisibleColumns, count, allowMoveOnFirstLine) ==
    LET currentVisibleColumn ==
            visibleColumnFromColumn(getLineContent(lineNumber), column, tabSize)
            + leftoverVisibleColumns
        newLine == IF lineNumber - count < 1 THEN 1 ELSE lineNumber - count
        newColumn ==
            IF lineNumber - count < 1
            THEN (IF allowMoveOnFirstLine
                  THEN getLineMinColumn(newLine)
                  ELSE Min(getLineMaxColumn(newLine), column))
            ELSE columnFromVisibleColumn2(newLine, currentVisibleColumn)
    IN  CursorPosition(newLine, newColumn,
            currentVisibleColumn
            - visibleColumnFromColumn(getLineContent(newLine), newColumn, tabSize))

\* the line the vertical step of moveUp starts from
moveUpLine(c, inSelectionMode) ==
    IF hasSelection(c) /\ ~inSelectionMode
    THEN selection(c).startLineNumber ELSE c.position.lineNumber

moveUp(c, inSelectionMode, linesCount) ==
    LET lineNumber == moveUpLine(c, inSelectionMode)
        column0 == IF hasSelection(c) /\ ~inSelectionMode
                   THEN selection(c).startColumn ELSE c.position.column
        column == IF c.isEnd THEN getLineMaxColumn(lineNumber - 1) ELSE column0
        r == up(lineNumber, column, c.leftoverVisibleColumns, linesCount, TRUE)
    IN  move(c, inSelectionMode, r.lineNumber, IF c.isEnd THEN column ELSE r.column,
             r.leftoverVisibleColumns, c.isEnd)

\* translateUp stepping with allowMoveOnFirstLine = true
translateUp_snapsOnFirstLine(c) ==
    LET sel == selection(c)
        selectionStart == up(sel.selectionStartLineNumber, sel.selectionStartColumn,
                             c.selectionStartLeftoverVisibleColumns, 1, TRUE)
        position == up(sel.positionLineNumber, sel.positionColumn,
                       c.leftoverVisibleColumns, 1, TRUE)
    IN  SingleCursorState(
            Position(selectionStart.lineNumber, selectionStart.column),
            selectionStart.leftoverVisibleColumns,
            Position(position.lineNumber, position.column),
            position.leftoverVisibleColumns,
            FALSE)

translateUp(c) ==
    LET sel == selection(c)
        selectionStart == up(sel.selectionStartLineNumber, sel.selectionStartColumn,
                             c.selectionStartLeftoverVisibleColumns, 1, FALSE)
        position == up(sel.positionLineNumber, sel.positionColumn,
                       c.leftoverVisibleColumns, 1, FALSE)
    IN  SingleCursorState(
            Position(selectionStart.lineNumber, selectionStart.column),
            selectionStart.leftoverVisibleColumns,
            Position(position.lineNumber, position.column),
            position.leftoverVisibleColumns,
            FALSE)

(* --------------------- line and buffer relative moves ------------------ *)

\* moveToBeginningOfLine without the toggle: always the first non-blank column
moveToBeginningOfLine_neverToggles(c, inSelectionMode) ==
    LET lineNumber == c.position.lineNumber
        minColumn == getLineMinColumn(lineNumber)
        firstNonBlankColumn ==
            IF getLineFirstNonWhitespaceColumn(lineNumber) # 0
            THEN getLineFirstNonWhitespaceColumn(lineNumber) ELSE minColumn
    IN  move(c, inSelectionMode, lineNumber, firstNonBlankColumn, 0, FALSE)

moveToBeginningOfLine(c, inSelectionMode) ==
    LET lineNumber == c.position.lineNumber
        minColumn == getLineMinColumn(lineNumber)
        firstNonBlankColumn ==
            IF getLineFirstNonWhitespaceColumn(lineNumber) # 0
            THEN getLineFirstNonWhitespaceColumn(lineNumber) ELSE minColumn
        relevantColumnNumber == c.position.column
        column == IF relevantColumnNumber = firstNonBlankColumn
                  THEN minColumn ELSE firstNonBlankColumn
    IN  move(c, inSelectionMode, lineNumber, column, 0, FALSE)

\* moveToEndOfLine not setting the sticky-end flag
moveToEndOfLine_notSticky(c, inSelectionMode) ==
    LET lineNumber == c.position.lineNumber
        maxColumn == getLineMaxColumn(lineNumber)
    IN  move(c, inSelectionMode, lineNumber, maxColumn, 0, FALSE)

moveToEndOfLine(c, inSelectionMode) ==
    LET lineNumber == c.position.lineNumber
        maxColumn == getLineMaxColumn(lineNumber)
    IN  move(c, inSelectionMode, lineNumber, maxColumn, 0, TRUE)

moveToBeginningOfBuffer(c, inSelectionMode) ==
    move(c, inSelectionMode, 1, 1, 0, FALSE)

\* moveToEndOfBuffer ignoring the selection-mode flag
moveToEndOfBuffer_alwaysCollapses(c, inSelectionMode) ==
    LET lastLineNumber == getLineCount
        lastColumn == getLineMaxColumn(lastLineNumber)
    IN  move(c, FALSE, lastLineNumber, lastColumn, 0, FALSE)

moveToEndOfBuffer(c, inSelectionMode) ==
    LET lastLineNumber == getLineCount
        lastColumn == getLineMaxColumn(lastLineNumber)
    IN  move(c, inSelectionMode, lastLineNumber, lastColumn, 0, FALSE)

(* ------------- the line numbers an operation asks the buffer for ------- *)

leftPositionQueries(lineNumber, column) ==
    {lineNumber} \cup
    (IF column <= getLineMinColumn(lineNumber) /\ lineNumber > 1
     THEN {lineNumber - 1} ELSE {})

moveLeftQueries(c, inSelectionMode, noOfColumns) ==
    IF hasSelection(c) /\ ~inSelectionMode THEN {}
    ELSE leftPositionQueries(c.position.lineNumber,
                             c.position.column - (noOfColumns - 1))

rightPositionQueries(lineNumber, column) ==
    {lineNumber} \cup
    (IF column >= getLineMaxColumn(lineNumber) /\ lineNumber < getLineCount
     THEN {lineNumber + 1} ELSE {})

moveRightQueries(c, inSelectionMode, noOfColumns) ==
    IF hasSelection(c) /\ ~inSelectionMode THEN {}
    ELSE rightPositionQueries(c.position.lineNumber,
                              c.position.column + (noOfColumns - 1))

downQueries(lineNumber, count) ==
    {lineNumber,
     IF lineNumber + count > getLineCount THEN getLineCount ELSE lineNumber + count}

\* a query outside the buffer fails, and nothing after it is asked
moveDownQueries(c, inSelectionMode, linesCount) ==
    LET lineNumber == moveDownLine(c, inSelectionMode)
    IN  IF c.isEnd /\ lineNumber + 1 \notin 1..getLineCount
        THEN {lineNumber + 1}
        ELSE (IF c.isEnd THEN {lineNumber + 1} ELSE {})
             \cup downQueries(lineNumber, linesCount)

translateDownQueries(c) ==
    downQueries(c.selectionStart.lineNumber, 1) \cup downQueries(c.position.lineNumber, 1)

upQueries(lineNumber, count) ==
    {lineNumber, IF lineNumber - count < 1 THEN 1 ELSE lineNumber - count}

moveUpQueries(c, inSelectionMode, linesCount) ==
    LET lineNumber == moveUpLine(c, inSelectionMode)
    IN  IF c.isEnd /\ lineNumber - 1 \notin 1..getLineCount
        THEN {lineNumber - 1}
        ELSE (IF c.isEnd THEN {lineNumber - 1} ELSE {})
             \cup upQueries(lineNumber, linesCount)

translateUpQueries(c) ==
    upQueries(c.selectionStart.lineNumber, 1) \cup upQueries(c.position.lineNumber, 1)

(* ------------------------------ the machine ---------------------------- *)

ValidPosition(p) ==
    /\ p.lineNumber \in 1..getLineCount
    /\ p.column >= getLineMinColumn(p.lineNumber)
    /\ p.column <= getLineMaxColumn(p.lineNumber)

\* the operations are handed structurally valid cursor states only
ValidInput(c) == ValidPosition(c.selectionStart) /\ ValidPosition(c.position)

\* p does not lie between the two code units of a surrogate pair
OnCharacterBoundary(p) ==
    LET str == getLineContent(p.lineNumber)
    IN  ~(p.column >= 2 /\ p.column <= Len(str)
          /\ str[p.column - 1] = "H" /\ str[p.column] = "L")

\* the record of a call: the operation, its arguments, whether it took the
\* branch that leaves a selection by a plain move, and the floating end and
\* leftover it was called with
Called(name, inSelectionMode, count, c) ==
    [name |-> name, inSelectionMode |-> inSelectionMode, count |-> count,
     fromSelection |-> hasSelection(c) /\ ~inSelectionMode,
     from |-> CursorPosition(c.position.lineNumber, c.position.column,
                             c.leftoverVisibleColumns)]

NoOp == [name |-> "none"]

Init ==
    /\ lines \in Buffers
    /\ tabSize \in 1..MaxTabSize
    /\ \E l \in 1..Len(lines) : \E col \in 1..(Len(lines[l]) + 1) :
          /\ OnCharacterBoundary(Position(l, col))
          /\ cursor = SingleCursorState(Position(l, col), 0, Position(l, col), 0, FALSE)
    /\ op = NoOp
    /\ queried = {}

\* one call: the lines asked for are recorded; a query outside the buffer
\* fails the call, which then returns no new state
Call(name, inSelectionMode, count, asked, result) ==
    /\ ValidInput(cursor)
    /\ asked \subseteq 1..getLineCount =>
          /\ result.leftoverVisibleColumns \in -MaxLeftover..MaxLeftover
          /\ result.selectionStartLeftoverVisibleColumns \in -MaxLeftover..MaxLeftover
    /\ queried' = asked
    /\ cursor' = IF asked \subseteq 1..getLineCount THEN result ELSE cursor
    /\ op' = Called(name, inSelectionMode, count, cursor)
    /\ UNCHANGED <<lines, tabSize>>

MoveLeft ==
    \E inSelectionMode \in BOOLEAN, noOfColumns \in 1..MaxCount :
        Call("moveLeft", inSelectionMode, noOfColumns,
             moveLeftQueries(cursor, inSelectionMode, noOfColumns),
             moveLeft(cursor, inSelectionMode, noOfColumns))

MoveRight ==
    \E inSelectionMode \in BOOLEAN, noOfColumns \in 1..MaxCount :
        Call("moveRight", inSelectionMode, noOfColumns,
             moveRightQueries(cursor, inSelectionMode, noOfColumns),
             moveRight(cursor, inSelectionMode, noOfColumns))

MoveDown ==
    \E inSelectionMode \in BOOLEAN, linesCount \in 1..MaxCount :
        Call("moveDown", inSelectionMode, linesCount,
             moveDownQueries(cursor, inSelectionMode, linesCount),
             moveDown(cursor, inSelectionMode, linesCount))

MoveUp ==
    \E inSelectionMode \in BOOLEAN, linesCount \in 1..MaxCount :
        Call("moveUp", inSelectionMode, linesCount,
             moveUpQueries(cursor, inSelectionMode, linesCount),
             moveUp(cursor, inSelectionMode, linesCount))

TranslateDown ==
    Call("translateDown", FALSE, 1, translateDownQueries(cursor), translateDown(cursor))

TranslateUp ==
    Call("translateUp", FALSE, 1, translateUpQueries(cursor), translateUp(cursor))

MoveToBeginningOfLine ==
    \E inSelectionMode \in BOOLEAN :
        Call("moveToBeginningOfLine", inSelectionMode, 0,
             {cursor.position.lineNumber}, moveToBeginningOfLine(cursor, inSelectionMode))

MoveToEndOfLine ==
    \E inSelectionMode \in BOOLEAN :
        Call("moveToEndOfLine", inSelectionMode, 0,
             {cursor.position.lineNumber}, moveToEndOfLine(cursor, inSelectionMode))

MoveToBeginningOfBuffer ==
    \E inSelectionMode \in BOOLEAN :
        Call("moveToBeginningOfBuffer", inSelectionMode, 0,
             {}, moveToBeginningOfBuffer(cursor, inSelectionMode))

MoveToEndOfBuffer ==
    \E inSelectionMode \in BOOLEAN :
        Call("moveToEndOfBuffer", inSelectionMode, 0,
             {getLineCount}, moveToEndOfBuffer(cursor, inSelectionMode))

Next ==
    \/ MoveLeft
    \/ MoveRight
    \/ MoveDown
    \/ MoveUp
    \/ TranslateDown
    \/ TranslateUp
    \/ MoveToBeginningOfLine
    \/ MoveToEndOfLine
    \/ MoveToBeginningOfBuffer
    \/ MoveToEndOfBuffer

Spec == Init /\ [][Next]_vars

(* ------------------------------- claims -------------------------------- *)
(* Claims about one call are stated on a step: the unprimed cursor is the  *)
(* state the operation was called with, op' the call, cursor' its result.  *)

\* the call stepped from the floating end (it did not leave a selection by a
\* plain move)
SteppedFromFloatingEnd == ~hasSelection(cursor) \/ op'.inSelectionMode

\* the call returned a state: no buffer query failed
Returned == queried' \subseteq 1..getLineCount

VisibleColumnOf(p) ==
    visibleColumnFromColumn(getLineContent(p.lineNumber), p.column, tabSize)

LineWidth(lineNumber) ==
    visibleColumnFromColumn(getLineContent(lineNumber), getLineMaxColumn(lineNumber), tabSize)

\* some column of the line sits at exactly this visible column
HasColumnAt(lineNumber, visibleColumn) ==
    \E col \in getLineMinColumn(lineNumber)..getLineMaxColumn(lineNumber) :
        visibleColumnFromColumn(getLineContent(lineNumber), col, tabSize) = visibleColumn

\* C1: position validity is an invariant: after any sequence of the
\* operations from a valid cursor, the anchor and the floating end have a
\* line number in [1, lineCount] and a column in [minColumn, maxColumn] of
\* that line.
C1_PositionsStayValid ==
    ValidPosition(cursor.selectionStart) /\ ValidPosition(cursor.position)

\* C2: no operation fails on a valid cursor: the buffer is only ever asked
\* about line numbers in [1, lineCount].
C2_QueriesStayInRange == queried \subseteq 1..getLineCount

RECURSIVE leftTimes(_, _)
leftTimes(p, n) ==
    IF n = 0 THEN p
    ELSE LET q == leftTimes(p, n - 1) IN leftPosition(q.lineNumber, q.column)

RECURSIVE rightTimes(_, _)
rightTimes(p, n) ==
    IF n = 0 THEN p
    ELSE LET q == rightTimes(p, n - 1) IN rightPosition(q.lineNumber, q.column)

\* C3: when the cursor has no selection or the move extends the selection,
\* moveLeft (moveRight) with noOfColumns = n puts the floating end where n
\* successive applications of leftPosition (rightPosition) from the floating
\* end put it, with leftover 0.
C3_StepAppliedNTimes ==
    [][ /\ (op'.name = "moveLeft" /\ SteppedFromFloatingEnd /\ Returned)
            => /\ cursor'.position = leftTimes(cursor.position, op'.count)
               /\ cursor'.leftoverVisibleColumns = 0
        /\ (op'.name = "moveRight" /\ SteppedFromFloatingEnd /\ Returned)
            => /\ cursor'.position = rightTimes(cursor.position, op'.count)
               /\ cursor'.leftoverVisibleColumns = 0 ]_vars

\* C4: end-of-line stickiness propagates: every moveDown of a sticky-end
\* cursor returns a sticky-end cursor whose column is the max column of the
\* line it arrives on.
C4_StickyEndFollowsLineEnd ==
    [][ (op'.name = "moveDown" /\ cursor.isEnd /\ Returned)
            => /\ cursor'.isEnd
               /\ cursor'.position.column = getLineMaxColumn(cursor'.position.lineNumber) ]_vars

LeftoversNonNegative(c) ==
    /\ c.leftoverVisibleColumns >= 0
    /\ c.selectionStartLeftoverVisibleColumns >= 0

\* C5 as stated: leftover is never negative: in every state reachable from a
\* valid cursor with both leftovers 0, leftoverVisibleColumns and
\* selectionStartLeftoverVisibleColumns are >= 0.
C5_LeftoverNonNegative == LeftoversNonNegative(cursor)

\* the call is a moveDown whose target line lies past the last line
ClampedMoveDown ==
    /\ op'.name = "moveDown"
    /\ moveDownLine(cursor, op'.inSelectionMode) + op'.count > getLineCount

\* C5 as amended: a negative leftover comes only from a moveDown whose target
\* line lies past the last line: every other call on a cursor with leftovers
\* >= 0 returns leftovers >= 0 (a moveUp clamped at line 1 included).
C5_LeftoverNegativeOnlyByClampedMoveDown ==
    [][ (Returned /\ LeftoversNonNegative(cursor) /\ ~ClampedMoveDown)
            => LeftoversNonNegative(cursor') ]_vars

\* C5 witness: a moveUp issued past line 1 that was clamped and kept a
\* positive leftover.
C5_Witness ==
    /\ op.name = "moveUp"
    /\ ~cursor.isEnd
    /\ ~op.fromSelection
    /\ op.from.lineNumber - op.count < 1
    /\ op.from.leftoverVisibleColumns = 0
    /\ cursor.leftoverVisibleColumns > 0

\* a non-sticky collapsed caret with no leftover
PlainCaret(c) == ~c.isEnd /\ ~hasSelection(c) /\ c.leftoverVisibleColumns = 0

\* moveDown by k then moveUp by k (in the same selection mode) from a plain
\* caret with l + k <= lineCount is back at (l, c) with leftover 0
DownThenUpReturns ==
    (op'.name = "moveDown" /\ PlainCaret(cursor)
        /\ cursor.position.lineNumber + op'.count <= getLineCount)
    => LET back == moveUp(cursor', op'.inSelectionMode, op'.count)
       IN  /\ back.position = cursor.position
           /\ back.leftoverVisibleColumns = 0

\* the line an unclamped vertical step of the floating end arrives on
VerticalTarget ==
    IF op'.name = "moveDown"
    THEN cursor.position.lineNumber + op'.count
    ELSE cursor.position.lineNumber - op'.count

\* a caret that carries a leftover (it sits on a line too short for its
\* visible column) takes an unclamped vertical step from its floating end
CarriedVerticalStep ==
    /\ op'.name \in {"moveDown", "moveUp"}
    /\ ~cursor.isEnd
    /\ SteppedFromFloatingEnd
    /\ cursor.leftoverVisibleColumns > 0
    /\ VerticalTarget \in 1..getLineCount

\* the step lands on the visible column the caret started from
BackOnVisibleColumn ==
    /\ VisibleColumnOf(cursor'.position)
         = VisibleColumnOf(cursor.position) + cursor.leftoverVisibleColumns
    /\ cursor'.leftoverVisibleColumns = 0

\* C6 as stated: vertical stickiness: down by k then up by k returns to
\* (l, c) with leftover 0, and a caret carrying a leftover is put back on its
\* exact visible column by the next vertical move onto a line wide enough.
C6_VerticalStickiness ==
    [][ /\ DownThenUpReturns
        /\ (CarriedVerticalStep
              /\ LineWidth(VerticalTarget)
                   >= VisibleColumnOf(cursor.position) + cursor.leftoverVisibleColumns)
            => BackOnVisibleColumn ]_vars

\* C6 as amended: the same, where "wide enough" is "has a column at exactly
\* that visible column": a line whose tab spans the visible column is wide
\* enough and has no such column.
C6_VerticalStickinessOnExistingColumn ==
    [][ /\ DownThenUpReturns
        /\ (CarriedVerticalStep
              /\ HasColumnAt(VerticalTarget,
                   VisibleColumnOf(cursor.position) + cursor.leftoverVisibleColumns))
            => BackOnVisibleColumn ]_vars

\* C6 witness: a caret that carried a leftover stepped vertically, unclamped,
\* and is back on its visible column with no leftover.
C6_Witness ==
    /\ op.name \in {"moveDown", "moveUp"}
    /\ ~cursor.isEnd
    /\ ~op.fromSelection
    /\ op.from.leftoverVisibleColumns > 0
    /\ cursor.position.lineNumber # op.from.lineNumber
    /\ cursor.leftoverVisibleColumns = 0
    /\ VisibleColumnOf(cursor.position)
         = VisibleColumnOf(op.from) + op.from.leftoverVisibleColumns

\* the selection's endpoints in document order
NormalizedStart(c) ==
    IF isBeforeOrEqual(c.selectionStart, c.position) THEN c.selectionStart ELSE c.position

NormalizedEnd(c) ==
    IF isBeforeOrEqual(c.selectionStart, c.position) THEN c.position ELSE c.selectionStart

\* C7: selection escape on a plain horizontal move: with a non-empty
\* selection, a non-extending moveLeft returns a collapsed cursor at the
\* selection's normalized start and a non-extending moveRight one at its
\* normalized end, whatever noOfColumns and whichever endpoint floats.
C7_PlainHorizontalMoveLeavesSelection ==
    [][ /\ (op'.name = "moveLeft" /\ hasSelection(cursor) /\ ~op'.inSelectionMode)
            => /\ cursor'.position = NormalizedStart(cursor)
               /\ cursor'.selectionStart = cursor'.position
        /\ (op'.name = "moveRight" /\ hasSelection(cursor) /\ ~op'.inSelectionMode)
            => /\ cursor'.position = NormalizedEnd(cursor)
               /\ cursor'.selectionStart = cursor'.position ]_vars

\* C7 witness: a plain moveLeft by 2 left a selection whose floating end was
\* its later endpoint, and the cursor is collapsed on another position.
C7_Witness ==
    /\ op.name = "moveLeft"
    /\ op.fromSelection
    /\ op.count = 2
    /\ ~hasSelection(cursor)
    /\ ~isBeforeOrEqual(Position(op.from.lineNumber, op.from.column), cursor.position)

FlagOperations ==
    {"moveLeft", "moveRight", "moveUp", "moveDown", "moveToBeginningOfLine",
     "moveToEndOfLine", "moveToBeginningOfBuffer", "moveToEndOfBuffer"}

\* C8: the selection-mode flag means the same for the eight operations that
\* take it: when true the result keeps the anchor (position and leftover) of
\* the input, when false the result's anchor is the result's floating end.
C8_SelectionFlagIsUniform ==
    [][ (op'.name \in FlagOperations /\ Returned)
            => IF op'.inSelectionMode
               THEN /\ cursor'.selectionStart = cursor.selectionStart
                    /\ cursor'.selectionStartLeftoverVisibleColumns
                         = cursor.selectionStartLeftoverVisibleColumns
               ELSE cursor'.selectionStart = cursor'.position ]_vars

\* C8 witness: an extending moveToEndOfBuffer moved the floating end away
\* from the anchor.
C8_Witness ==
    /\ op.name = "moveToEndOfBuffer"
    /\ op.inSelectionMode
    /\ cursor.position # Position(op.from.lineNumber, op.from.column)
    /\ cursor.selectionStart # cursor.position

\* C9: horizontal round trip: from a valid position on a character boundary,
\* a step left (unless at the buffer start) followed by rightPosition, and a
\* step right (unless at the buffer end) followed by leftPosition, give the
\* position back, across line breaks and surrogate pairs.
C9_HorizontalRoundTrip ==
    [][ (op'.name \in {"moveLeft", "moveRight"} /\ op'.count = 1
           /\ SteppedFromFloatingEnd /\ OnCharacterBoundary(cursor.position))
        => /\ (op'.name = "moveLeft" /\ cursor.position # Position(1, 1))
                => rightPosition(cursor'.position.lineNumber, cursor'.position.column)
                     = cursor.position
           /\ (op'.name = "moveRight"
                 /\ cursor.position # Position(getLineCount, getLineMaxColumn(getLineCount)))
                => leftPosition(cursor'.position.lineNumber, cursor'.position.column)
                     = cursor.position ]_vars

\* C9 witness: a single step right crossed a surrogate pair.
C9_Witness ==
    /\ op.name = "moveRight"
    /\ op.count = 1
    /\ ~op.fromSelection
    /\ cursor.position.lineNumber = op.from.lineNumber
    /\ cursor.position.column = op.from.column + 2

\* the length of the character between two columns of a line one step apart
CrossedLength(lineNumber, lowColumn) ==
    LET str == getLineContent(lineNumber)
    IN  IF lowColumn + 1 <= Len(str) /\ str[lowColumn] = "H" /\ str[lowColumn + 1] = "L"
        THEN 2 ELSE 1

\* C10: atomic wide-character stepping: a single-step moveLeft or moveRight
\* of a cursor whose endpoints are on character boundaries returns a cursor
\* whose endpoints are on character boundaries, and a step within a line
\* moves the column by the whole length of the character crossed.
C10_SingleStepsKeepCharactersWhole ==
    [][ (op'.name \in {"moveLeft", "moveRight"} /\ op'.count = 1
           /\ OnCharacterBoundary(cursor.position)
           /\ OnCharacterBoundary(cursor.selectionStart))
        => /\ OnCharacterBoundary(cursor'.position)
           /\ OnCharacterBoundary(cursor'.selectionStart)
           /\ (SteppedFromFloatingEnd
                 /\ cursor'.position.lineNumber = cursor.position.lineNumber
                 /\ cursor'.position # cursor.position)
                => IF op'.name = "moveRight"
                   THEN cursor'.position.column - cursor.position.column
                          = CrossedLength(cursor.position.lineNumber, cursor.position.column)
                   ELSE cursor.position.column - cursor'.position.column
                          = CrossedLength(cursor.position.lineNumber, cursor'.position.column) ]_vars

\* C10 witness: a single step left crossed a surrogate pair.
C10_Witness ==
    /\ op.name = "moveLeft"
    /\ op.count = 1
    /\ ~op.fromSelection
    /\ cursor.position.lineNumber = op.from.lineNumber
    /\ cursor.position.column = op.from.column - 2
    /\ OnCharacterBoundary(cursor.position)

\* the column of the first character of the line that is neither a space
\* nor a tab; the min column when the line has none
FirstNonBlankColumn(lineNumber) ==
    LET str == getLineContent(lineNumber)
        nonBlank == { i \in 1..Len(str) : str[i] # "s" /\ str[i] # "t" }
    IN  IF nonBlank = {} THEN getLineMinColumn(lineNumber)
        ELSE CHOOSE i \in nonBlank : \A j \in nonBlank : i <= j

\* the column smart home goes to from a column of a line
SmartHomeColumn(lineNumber, column) ==
    IF column = FirstNonBlankColumn(lineNumber)
    THEN getLineMinColumn(lineNumber) ELSE FirstNonBlankColumn(lineNumber)

\* C11: smart-home toggle: moveToBeginningOfLine keeps the line and returns
\* the min column when the caret's column is the first-non-blank column, and
\* the first-non-blank column otherwise (the min column standing for it on a
\* blank or empty line); a second invocation decides from the column the
\* first one returned, so repeated invocations alternate.
C11_SmartHomeToggles ==
    [][ op'.name = "moveToBeginningOfLine"
        => /\ cursor'.position.lineNumber = cursor.position.lineNumber
           /\ cursor'.position.column
                = SmartHomeColumn(cursor.position.lineNumber, cursor.position.column)
           /\ moveToBeginningOfLine(cursor', op'.inSelectionMode).position.column
                = SmartHomeColumn(cursor'.position.lineNumber, cursor'.position.column)
           /\ FirstNonBlankColumn(cursor.position.lineNumber)
                # getLineMinColumn(cursor.position.lineNumber)
              => moveToBeginningOfLine(cursor', op'.inSelectionMode).position.column
                   # cursor'.position.column ]_vars

\* C11 witness: from the first non-blank column of an indented line, smart
\* home went to the min column.
C11_Witness ==
    /\ op.name = "moveToBeginningOfLine"
    /\ FirstNonBlankColumn(op.from.lineNumber) > getLineMinColumn(op.from.lineNumber)
    /\ op.from.column = FirstNonBlankColumn(op.from.lineNumber)
    /\ cursor.position = Position(op.from.lineNumber, getLineMinColumn(op.from.lineNumber))

\* the line a moveUp / moveDown steps from: the floating end's, or the near
\* boundary of the selection a plain move leaves
VerticalStartLine ==
    IF SteppedFromFloatingEnd THEN cursor.position.lineNumber
    ELSE IF op'.name = "moveDown" THEN NormalizedEnd(cursor).lineNumber
    ELSE NormalizedStart(cursor).lineNumber

\* C12: caret-style boundary snap: for a non-sticky cursor, a moveUp whose
\* target line is above line 1 returns line 1 at its min column, a moveDown
\* whose target line is past the last line returns the last line at its max
\* column, and the line number stays in [1, lineCount].
C12_ClampedVerticalMoveSnaps ==
    [][ (op'.name \in {"moveUp", "moveDown"} /\ ~cursor.isEnd)
        => /\ cursor'.position.lineNumber \in 1..getLineCount
           /\ (op'.name = "moveUp" /\ VerticalStartLine - op'.count < 1)
                => cursor'.position = Position(1, getLineMinColumn(1))
           /\ (op'.name = "moveDown" /\ VerticalStartLine + op'.count > getLineCount)
                => cursor'.position
                     = Position(getLineCount, getLineMaxColumn(getLineCount)) ]_vars

\* C12 witness: a moveDown issued on the last line, left of its end, snapped
\* to the line's max column.
C12_Witness ==
    /\ op.name = "moveDown"
    /\ ~cursor.isEnd
    /\ ~op.fromSelection
    /\ op.from.lineNumber = getLineCount
    /\ op.from.column < getLineMaxColumn(getLineCount)
    /\ cursor.position = Position(getLineCount, getLineMaxColumn(getLineCount))

\* C13: horizontal wrap and clamp: a step left from the min column of a line
\* l > 1 gives (l - 1, maxColumn(l - 1)) and from (1, minColumn) the same
\* position; a step right from the max column of a line l < lineCount gives
\* (l + 1, minColumn(l + 1)) and from the buffer end the same position; any
\* other step keeps the line.
C13_HorizontalWrapAndClamp ==
    [][ (op'.name \in {"moveLeft", "moveRight"} /\ op'.count = 1 /\ SteppedFromFloatingEnd)
        => LET l == cursor.position.lineNumber
               col == cursor.position.column
           IN  IF op'.name = "moveLeft"
               THEN IF col = getLineMinColumn(l)
                    THEN cursor'.position
                           = IF l > 1 THEN Position(l - 1, getLineMaxColumn(l - 1))
                             ELSE cursor.position
                    ELSE cursor'.position.lineNumber = l
               ELSE IF col = getLineMaxColumn(l)
                    THEN cursor'.position
                           = IF l < getLineCount THEN Position(l + 1, getLineMinColumn(l + 1))
                             ELSE cursor.position
                    ELSE cursor'.position.lineNumber = l ]_vars

\* C13 witness: a step left from the start of a line wrapped to the end of
\* the non-empty line before it.
C13_Witness ==
    /\ op.name = "moveLeft"
    /\ op.count = 1
    /\ ~op.fromSelection
    /\ op.from.column = 1
    /\ op.from.lineNumber > 1
    /\ cursor.position.lineNumber = op.from.lineNumber - 1
    /\ cursor.position.column = getLineMaxColumn(cursor.position.lineNumber)
    /\ cursor.position.column > 1

\* C14: desired visible column conserved: a plain moveUp / moveDown of a
\* non-sticky collapsed caret, by any count and clamped or not, leaves the
\* sum of the caret's visible column and its leftover unchanged, and returns
\* a non-sticky collapsed caret again; so the sum keeps its initial value
\* along any sequence of such moves.
C14_DesiredVisibleColumnConserved ==
    [][ ( /\ op'.name \in {"moveUp", "moveDown"}
          /\ ~op'.inSelectionMode
          /\ ~cursor.isEnd
          /\ ~hasSelection(cursor)
          /\ Returned )
        => /\ VisibleColumnOf(cursor'.position) + cursor'.leftoverVisibleColumns
                = VisibleColumnOf(cursor.position) + cursor.leftoverVisibleColumns
           /\ ~cursor'.isEnd
           /\ ~hasSelection(cursor') ]_vars

\* C14 witness: a plain moveDown of a caret clamped at the last line and
\* returned a negative leftover, the caret's visible column having grown.
C14_Witness ==
    /\ op.name = "moveDown"
    /\ ~op.inSelectionMode
    /\ ~op.fromSelection
    /\ ~cursor.isEnd
    /\ op.from.lineNumber + op.count > getLineCount
    /\ cursor.leftoverVisibleColumns < 0
    /\ cursor.position.lineNumber = getLineCount

\* the vertical step of spec 4.3 from position p carrying leftover, by delta
\* lines (negative: up), snapping to the buffer boundary or not when the
\* target line is outside the buffer
VerticalStepOf(p, leftover, delta, snap) ==
    LET target == p.lineNumber + delta
        desired == VisibleColumnOf(p) + leftover
        newLine == IF target < 1 THEN 1
                   ELSE IF target > getLineCount THEN getLineCount ELSE target
        newColumn ==
            IF target = newLine THEN columnFromVisibleColumn2(newLine, desired)
            ELSE IF ~snap THEN Min(getLineMaxColumn(newLine), p.column)
            ELSE IF delta > 0 THEN getLineMaxColumn(newLine)
            ELSE getLineMinColumn(newLine)
    IN  CursorPosition(newLine, newColumn,
                       desired - VisibleColumnOf(Position(newLine, newColumn)))

\* C15: vertical selection escape: for a non-sticky cursor with a non-empty
\* selection, a plain moveDown by n returns a collapsed cursor on line
\* min(selection end line + n, lineCount) stepped from the selection's end,
\* a plain moveUp by n one on line max(selection start line - n, 1) stepped
\* from the selection's start, wherever the floating end is; any other
\* non-sticky moveUp / moveDown steps from the floating end and lands on its
\* line -/+ n, clamped.
C15_VerticalSelectionEscape ==
    [][ (op'.name \in {"moveUp", "moveDown"} /\ ~cursor.isEnd)
        => LET n == op'.count
               delta == IF op'.name = "moveDown" THEN n ELSE 0 - n
               escaped == hasSelection(cursor) /\ ~op'.inSelectionMode
               from == IF ~escaped THEN cursor.position
                       ELSE IF op'.name = "moveDown" THEN NormalizedEnd(cursor)
                       ELSE NormalizedStart(cursor)
               r == VerticalStepOf(from, cursor.leftoverVisibleColumns, delta, TRUE)
           IN  /\ cursor'.position = Position(r.lineNumber, r.column)
               /\ cursor'.position.lineNumber
                    = IF op'.name = "moveDown"
                      THEN Min(from.lineNumber + n, getLineCount)
                      ELSE 0 - Min(n - from.lineNumber, -1)
               /\ escaped => cursor'.selectionStart = cursor'.position ]_vars

\* C15 witness: a plain moveDown of a selection whose floating end was its
\* start, on an earlier line than its end, landed below where a step from
\* the floating end would have.
C15_Witness ==
    /\ op.name = "moveDown"
    /\ op.fromSelection
    /\ ~cursor.isEnd
    /\ cursor.selectionStart = cursor.position
    /\ op.from.lineNumber + op.count < cursor.position.lineNumber

\* C16: translateDown / translateUp move the endpoints independently: the
\* result's anchor is the one-line no-snap vertical step of the input anchor
\* carrying selectionStartLeftoverVisibleColumns, its floating end the same
\* step of the input floating end carrying leftoverVisibleColumns, and each
\* result leftover is the one its own endpoint's step gives.
C16_TranslateMovesEndpointsIndependently ==
    [][ op'.name \in {"translateDown", "translateUp"}
        => LET delta == IF op'.name = "translateDown" THEN 1 ELSE -1
               a == VerticalStepOf(cursor.selectionStart,
                                   cursor.selectionStartLeftoverVisibleColumns,
                                   delta, FALSE)
               f == VerticalStepOf(cursor.position, cursor.leftoverVisibleColumns,
                                   delta, FALSE)
           IN  /\ cursor'.selectionStart = Position(a.lineNumber, a.column)
               /\ cursor'.selectionStartLeftoverVisibleColumns = a.leftoverVisibleColumns
               /\ cursor'.position = Position(f.lineNumber, f.column)
               /\ cursor'.leftoverVisibleColumns = f.leftoverVisibleColumns ]_vars

\* C16 witness: translateDown moved a selection whose floating end carried a
\* leftover its anchor did not, and the two ends came out with different
\* leftovers.
C16_Witness ==
    /\ op.name = "translateDown"
    /\ op.from.leftoverVisibleColumns > 0
    /\ cursor.position.lineNumber = op.from.lineNumber + 1
    /\ cursor.selectionStart # cursor.position
    /\ cursor.selectionStartLeftoverVisibleColumns # cursor.leftoverVisibleColumns

\* C17: translate at the buffer boundary is a no-op on the clamped endpoint:
\* translateDown leaves an endpoint that is on the last line, and translateUp
\* one that is on line 1, with its line, column and leftover unchanged.
C17_TranslateKeepsClampedEndpoint ==
    [][ op'.name \in {"translateDown", "translateUp"}
        => LET boundary == IF op'.name = "translateDown" THEN getLineCount ELSE 1
           IN  /\ cursor.position.lineNumber = boundary
                  => /\ cursor'.position = cursor.position
                     /\ cursor'.leftoverVisibleColumns = cursor.leftoverVisibleColumns
               /\ cursor.selectionStart.lineNumber = boundary
                  => /\ cursor'.selectionStart = cursor.selectionStart
                     /\ cursor'.selectionStartLeftoverVisibleColumns
                          = cursor.selectionStartLeftoverVisibleColumns ]_vars

\* C17 witness: translateUp of a cursor whose floating end was on line 1,
\* right of its min column, while its anchor was below: the floating end
\* stayed and the anchor moved up onto line 1.
C17_Witness ==
    /\ op.name = "translateUp"
    /\ op.from.lineNumber = 1
    /\ op.from.column > getLineMinColumn(1)
    /\ cursor.position = Position(op.from.lineNumber, op.from.column)
    /\ cursor.leftoverVisibleColumns = op.from.leftoverVisibleColumns
    /\ cursor.selectionStart.lineNumber = 1
    /\ cursor.selectionStart # cursor.position

\* C18: sticky-end lifecycle: the state an operation returns is sticky-end
\* exactly when the operation is moveToEndOfLine, or is moveUp / moveDown
\* applied to a sticky-end state; every other operation returns a non-sticky
\* state, with floating leftover 0 unless it is translateUp / translateDown.
C18_StickyEndLifecycle ==
    [][ (op'.name # "none" /\ Returned)
        => /\ cursor'.isEnd
                <=> \/ op'.name = "moveToEndOfLine"
                    \/ op'.name \in {"moveUp", "moveDown"} /\ cursor.isEnd
           /\ op'.name \in {"moveLeft", "moveRight", "moveToBeginningOfLine",
                            "moveToBeginningOfBuffer", "moveToEndOfBuffer"}
                => cursor'.leftoverVisibleColumns = 0 ]_vars

\* C18 witness: a moveDown of a sticky-end state returned, one line lower, a
\* state that is sticky-end again.
C18_Witness ==
    /\ op.name = "moveDown"
    /\ queried \subseteq 1..getLineCount
    /\ cursor.isEnd
    /\ cursor.position.lineNumber = op.from.lineNumber + op.count

\* the valid positions of the buffer, and its first and last position
BufferPositions ==
    UNION { { Position(l, c) : c \in getLineMinColumn(l)..getLineMaxColumn(l) }
            : l \in 1..getLineCount }

StartOfBuffer == Position(1, getLineMinColumn(1))

EndOfBuffer == Position(getLineCount, getLineMaxColumn(getLineCount))

StrictlyBefore(p, q) == isBeforeOrEqual(p, q) /\ p # q

\* C19: horizontal traversal terminates: the end of the buffer is the only
\* fixed point of rightPosition, every other valid position steps to a valid
\* position strictly later in document order, and as many steps as the
\* buffer has positions reach the end of the buffer from anywhere; the same
\* holds for leftPosition, the start of the buffer and the reverse order.
\* A single-column moveRight / moveLeft from the floating end is that step.
C19_HorizontalTraversalTerminates ==
    /\ \A p \in BufferPositions :
          LET r == rightPosition(p.lineNumber, p.column)
              l == leftPosition(p.lineNumber, p.column)
              steps == Cardinality(BufferPositions)
          IN  /\ r = p <=> p = EndOfBuffer
              /\ r # p => StrictlyBefore(p, r) /\ r \in BufferPositions
              /\ rightTimes(p, steps) = EndOfBuffer
              /\ rightTimes(p, steps + 1) = EndOfBuffer
              /\ l = p <=> p = StartOfBuffer
              /\ l # p => StrictlyBefore(l, p) /\ l \in BufferPositions
              /\ leftTimes(p, steps) = StartOfBuffer
              /\ leftTimes(p, steps + 1) = StartOfBuffer
    /\ ( /\ op.name \in {"moveLeft", "moveRight"}
         /\ op.count = 1
         /\ ~op.fromSelection
         /\ queried \subseteq 1..getLineCount )
       => cursor.position
            = IF op.name = "moveRight"
              THEN rightPosition(op.from.lineNumber, op.from.column)
              ELSE leftPosition(op.from.lineNumber, op.from.column)

\* C19 witness: a single-column moveRight issued at the end of a buffer of
\* several lines stayed there.
C19_Witness ==
    /\ op.name = "moveRight"
    /\ op.count = 1
    /\ ~op.fromSelection
    /\ getLineCount > 1
    /\ Position(op.from.lineNumber, op.from.column) = EndOfBuffer
    /\ cursor.position = EndOfBuffer

====
